---- MODULE Spec2Model ----
(***************************************************************************)
(* A model of node/local_store.js: the encrypted configuration store.     *)
(*                                                                         *)
(* JavaScript values are modelled as records of one shape, so that a      *)
(* mapping keeps its key insertion order (a sequence of <<key, value>>    *)
(* members) and a member can be missing.  The store's callbacks run to    *)
(* completion on one thread; the file and cipher primitives complete      *)
(* later, so every operation is a chain of atomic steps, and several      *)
(* operations of one store instance may be in flight at once.             *)
(***************************************************************************)
EXTENDS Naturals, Integers, Sequences, FiniteSets, TLC

(***************************************************************************)
(* Bounds of the model.                                                    *)
(***************************************************************************)
MaxOps == 2

Procs == {1, 2}

(***************************************************************************)
(* JavaScript values.                                                      *)
(***************************************************************************)
Undefined == [kind |-> "undefined", str |-> "", members |-> <<>>]

Str(s) == [kind |-> "string", str |-> s, members |-> <<>>]

Obj(ms) == [kind |-> "object", str |-> "", members |-> ms]

EmptyObj == Obj(<<>>)

\* the names of the indexes of an Array
IndexNames == <<"0", "1">>

\* an Array: its elements under the names of their indexes
Arr(vs) ==
  [kind |-> "array", str |-> "", members |-> [i \in 1..Len(vs) |-> <<IndexNames[i], vs[i]>>]]

Truthy(v) == v.kind \in {"object", "array"} \/ (v.kind = "string" /\ v.str # "")

\* a || b
OrElse(a, b) == IF Truthy(a) THEN a ELSE b

Has(o, k) == \E i \in 1..Len(o.members) : o.members[i][1] = k

\* o[k]
Get(o, k) ==
  IF Has(o, k)
    THEN LET i == CHOOSE j \in 1..Len(o.members) : o.members[j][1] = k
         IN  o.members[i][2]
    ELSE Undefined

\* o[k] = v : an existing key keeps its place, a new key goes last
Put(o, k, v) ==
  IF Has(o, k)
    THEN Obj([i \in 1..Len(o.members) |->
               IF o.members[i][1] = k THEN <<k, v>> ELSE o.members[i]])
    ELSE Obj(Append(o.members, <<k, v>>))

\* delete o[k]
Delete(o, k) == Obj(SelectSeq(o.members, LAMBDA m : m[1] # k))

\* Object.keys(o)
Keys(o) == [i \in 1..Len(o.members) |-> o.members[i][1]]

KeySet(o) == {o.members[i][1] : i \in 1..Len(o.members)}

(***************************************************************************)
(* The order of strings (String.prototype comparison, used by             *)
(* Array.prototype.sort): the names of the model in ascending order.      *)
(***************************************************************************)
Alphabet ==
  <<"__current__", "a", "b", "github", "global", "local", "mail",
    "remote", "services", "sources">>

Rank(k) == CHOOSE i \in 1..Len(Alphabet) : Alphabet[i] = k

RECURSIVE InsertKey(_, _)
InsertKey(ks, k) ==
  IF ks = <<>> THEN <<k>>
  ELSE IF Rank(k) < Rank(Head(ks)) THEN <<k>> \o ks
  ELSE <<Head(ks)>> \o InsertKey(Tail(ks), k)

RECURSIVE SortKeys(_)
SortKeys(ks) == IF ks = <<>> THEN <<>> ELSE InsertKey(SortKeys(Tail(ks)), Head(ks))

RECURSIVE sortShort(_)
\* sort with its loop stopping one key early
sortShort(object) ==
  IF object.kind \notin {"object", "array"} THEN object
  ELSE IF object.kind = "array"
    THEN [object EXCEPT !.members =
           [i \in 1..Len(object.members) |->
              <<object.members[i][1], sortShort(object.members[i][2])>>]]
  ELSE LET keys == SortKeys(Keys(object))
       IN  Obj([i \in 1..(Len(keys) - 1) |-> <<keys[i], sortShort(Get(object, keys[i]))>>])

(***************************************************************************)
(* sort: a copy of the value with the keys of every mapping in order.     *)
(***************************************************************************)
RECURSIVE sortShallow(_)
\* sort that copies the values as they are
sortShallow(object) ==
  IF object.kind \notin {"object", "array"} THEN object
  ELSE IF object.kind = "array"
    THEN [object EXCEPT !.members =
           [i \in 1..Len(object.members) |->
              <<object.members[i][1], sortShallow(object.members[i][2])>>]]
  ELSE LET keys == SortKeys(Keys(object))
       IN  Obj([i \in 1..Len(keys) |-> <<keys[i], Get(object, keys[i])>>])

RECURSIVE sort(_)
sort(object) ==
  IF object.kind \notin {"object", "array"} THEN object
  ELSE IF object.kind = "array"
    THEN [object EXCEPT !.members =
           [i \in 1..Len(object.members) |->
              <<object.members[i][1], sort(object.members[i][2])>>]]
  ELSE LET keys == SortKeys(Keys(object))
       IN  Obj([i \in 1..Len(keys) |-> <<keys[i], sort(Get(object, keys[i]))>>])

(***************************************************************************)
(* Vault.extend(target, source): every key of source that target does not *)
(* own is copied to target.  A source that is undefined has no keys; a    *)
(* target that is undefined throws as soon as a key is looked up.         *)
(***************************************************************************)
RECURSIVE extendFrom(_, _, _)
extendFrom(target, source, i) ==
  IF i > Len(source.members) THEN target
  ELSE LET key == source.members[i][1]
       IN  extendFrom(IF Has(target, key) THEN target
                      ELSE Put(target, key, source.members[i][2]),
                      source, i + 1)

extend(target, source) == extendFrom(target, source, 1)

extendThrows(target, source) == target.kind # "object" /\ Len(source.members) > 0

(***************************************************************************)
(* JSON text: a sequence of tokens.  JSON.stringify writes the members of *)
(* a mapping in insertion order and leaves out a member whose value is    *)
(* undefined, and the elements of an Array in order; JSON.parse rebuilds  *)
(* the value or fails.                                                    *)
(***************************************************************************)
LBrace == [t |-> "{", s |-> ""]

RBrace == [t |-> "}", s |-> ""]

LBracket == [t |-> "[", s |-> ""]

RBracket == [t |-> "]", s |-> ""]

KeyTok(k) == [t |-> "key", s |-> k]

StrTok(x) == [t |-> "str", s |-> x]

RECURSIVE Stringify(_)
RECURSIVE StringifyMembers(_, _)
RECURSIVE StringifyElements(_, _)
Stringify(v) ==
  IF v.kind = "string" THEN <<StrTok(v.str)>>
  ELSE IF v.kind = "object" THEN <<LBrace>> \o StringifyMembers(v.members, 1) \o <<RBrace>>
  ELSE IF v.kind = "array"
    THEN <<LBracket>> \o StringifyElements(v.members, 1) \o <<RBracket>>
  ELSE <<>>

StringifyElements(ms, i) ==
  IF i > Len(ms) THEN <<>>
  ELSE Stringify(ms[i][2]) \o StringifyElements(ms, i + 1)

StringifyMembers(ms, i) ==
  IF i > Len(ms) THEN <<>>
  ELSE (IF ms[i][2].kind = "undefined" THEN <<>>
        ELSE <<KeyTok(ms[i][1])>> \o Stringify(ms[i][2]))
       \o StringifyMembers(ms, i + 1)

ParseError == [ok |-> FALSE, value |-> Undefined, rest |-> <<>>]

RECURSIVE ParseValue(_)
RECURSIVE ParseMembers(_, _)
RECURSIVE ParseElements(_, _)
ParseValue(toks) ==
  IF toks = <<>> THEN ParseError
  ELSE IF Head(toks).t = "str"
    THEN [ok |-> TRUE, value |-> Str(Head(toks).s), rest |-> Tail(toks)]
  ELSE IF Head(toks).t = "{" THEN ParseMembers(Tail(toks), EmptyObj)
  ELSE IF Head(toks).t = "[" THEN ParseElements(Tail(toks), <<>>)
  ELSE ParseError

ParseElements(toks, acc) ==
  IF toks = <<>> THEN ParseError
  ELSE IF Head(toks).t = "]" THEN [ok |-> TRUE, value |-> Arr(acc), rest |-> Tail(toks)]
  ELSE IF Len(acc) = Len(IndexNames) THEN ParseError
  ELSE LET r == ParseValue(toks)
       IN  IF r.ok THEN ParseElements(r.rest, Append(acc, r.value)) ELSE ParseError

ParseMembers(toks, acc) ==
  IF toks = <<>> THEN ParseError
  ELSE IF Head(toks).t = "}" THEN [ok |-> TRUE, value |-> acc, rest |-> Tail(toks)]
  ELSE IF Head(toks).t = "key"
    THEN LET r == ParseValue(Tail(toks))
         IN  IF r.ok THEN ParseMembers(r.rest, Put(acc, Head(toks).s, r.value))
             ELSE ParseError
  ELSE ParseError

\* JSON.parse(text): ok is FALSE where it throws
JSONparse(text) ==
  LET r == ParseValue(text)
  IN  IF r.ok /\ r.rest = <<>> THEN [ok |-> TRUE, value |-> r.value]
      ELSE [ok |-> FALSE, value |-> Undefined]

(***************************************************************************)
(* The cipher: a ciphertext opens only under the key that made it.        *)
(***************************************************************************)
StoreKey == "key"

NoContent == [key |-> "", text |-> <<>>]

encrypt(key, plaintext) == [key |-> key, text |-> plaintext]

decrypt(key, ciphertext) ==
  IF ciphertext.key = key THEN [ok |-> TRUE, text |-> ciphertext.text]
  ELSE [ok |-> FALSE, text |-> <<>>]

LocalStoreLOCAL == "local"

\* /^__.+__$/ on the names of the model
MetaNames == {"__current__"}

IsMeta(s) == s \in MetaNames

\* the made-up Document without its sources
EmptyDocumentNoSources ==
  Obj(<< <<"global", EmptyObj>>, <<"services", EmptyObj>> >>)

\* the Document load makes up when the file cannot be read
EmptyDocument ==
  Obj(<< <<"global", EmptyObj>>, <<"services", EmptyObj>>, <<"sources", EmptyObj>> >>)

Null == [kind |-> "null", str |-> "", members |-> <<>>]

(***************************************************************************)
(* What a callback is called with.                                        *)
(***************************************************************************)
NoResult ==
  [status |-> "none", err |-> <<>>, value |-> Undefined, names |-> <<>>, current |-> "",
   store |-> ""]

Success(v) == [NoResult EXCEPT !.status = "ok", !.value = v]

Failure(e) == [NoResult EXCEPT !.status = "error", !.err = e]

\* a TypeError thrown inside the callback of load: the operation's own callback is never called
Thrown == [NoResult EXCEPT !.status = "threw"]

Unreadable == <<"Your .vault file is unreadable; check your VAULT_KEY and VAULT_PATH settings">>

\* load telling a parse error from a decryption error
loadErrorDistinct(cause) == IF cause = "parse" THEN <<"SyntaxError">> ELSE Unreadable

\* the error of a load whose decrypt (cause "decrypt") or JSON.parse (cause "parse") failed
loadError(cause) == Unreadable

NotConfigured(service) == <<"Service is not configured", service>>

WriteError == <<"EIO">>

(***************************************************************************)
(* The bodies of the callbacks the operations give to load.  Each yields  *)
(* the config object as the callback leaves it (it is changed in place),  *)
(* and what happens next: the config is dumped, the operation's callback  *)
(* is called with a result, or the body throws.                           *)
(***************************************************************************)
ThenDump(config) == [next |-> "dump", config |-> config, result |-> NoResult]

ThenReturn(config, r) == [next |-> "return", config |-> config, result |-> r]

ThenThrow(config) == [next |-> "throw", config |-> config, result |-> Thrown]

\* currentStore's callback calls getStore(src), which loads again
ThenGetStore(config, src) ==
  [next |-> "getStore", config |-> config, result |-> NoResult, src |-> src]

load_cb(config) == ThenReturn(config, Success(config))

\* clear that empties sources as well
clear_cbSourcesToo(config) ==
  ThenDump(Put(Put(Put(config, "global", EmptyObj), "services", EmptyObj),
               "sources", EmptyObj))

clear_cb(config) ==
  ThenDump(Put(Put(config, "global", EmptyObj), "services", EmptyObj))

\* saveGlobals with the two calls of extend the other way round
saveGlobals_cbSavedFirst(config, settings) ==
  LET saved   == OrElse(Get(config, "global"), EmptyObj)
      updated == extend(extend(EmptyObj, saved), settings)
  IN  ThenDump(Put(config, "global", updated))

saveGlobals_cb(config, settings) ==
  LET saved   == OrElse(Get(config, "global"), EmptyObj)
      updated == extend(extend(EmptyObj, settings), saved)
  IN  ThenDump(Put(config, "global", updated))

saveService_cb(config, service, settings) ==
  LET c1       == Put(config, "services", OrElse(Get(config, "services"), EmptyObj))
      services == Get(c1, "services")
      saved    == OrElse(Get(services, service), EmptyObj)
      updated  == extend(extend(EmptyObj, settings), saved)
  IN  ThenDump(Put(c1, "services", Put(services, service, updated)))

deleteGlobals_cb(config) == ThenDump(Put(config, "global", EmptyObj))

\* deleteService without its test of services[service]
deleteService_cbUnchecked(config, service) ==
  ThenDump(Put(config, "services", Delete(OrElse(Get(config, "services"), EmptyObj), service)))

\* deleteService emptying services
deleteService_cbAll(config, service) ==
  LET services == Get(config, "services")
  IN  IF ~Truthy(services) \/ ~Truthy(Get(services, service))
        THEN ThenReturn(config, Failure(NotConfigured(service)))
        ELSE ThenDump(Put(config, "services", EmptyObj))

deleteService_cb(config, service) ==
  LET services == Get(config, "services")
  IN  IF ~Truthy(services) \/ ~Truthy(Get(services, service))
        THEN ThenReturn(config, Failure(NotConfigured(service)))
        ELSE ThenDump(Put(config, "services", Delete(services, service)))

\* serviceSettings with the two calls of extend the other way round
serviceSettings_cbGlobalFirst(config, service, includeGlobal) ==
  LET services == Get(config, "services")
  IN  IF ~includeGlobal /\ (~Truthy(services) \/ ~Truthy(Get(services, service)))
        THEN ThenReturn(config, Success(Null))
        ELSE LET mine     == OrElse(Get(OrElse(services, EmptyObj), service), EmptyObj)
                 settings == extend(extend(EmptyObj,
                                           OrElse(Get(config, "global"), EmptyObj)),
                                    mine)
             IN  ThenReturn(config, Success(settings))

serviceSettings_cb(config, service, includeGlobal) ==
  LET services == Get(config, "services")
  IN  IF ~includeGlobal /\ (~Truthy(services) \/ ~Truthy(Get(services, service)))
        THEN ThenReturn(config, Success(Null))
        ELSE LET mine     == OrElse(Get(OrElse(services, EmptyObj), service), EmptyObj)
                 settings == extend(extend(EmptyObj, mine),
                                    OrElse(Get(config, "global"), EmptyObj))
             IN  ThenReturn(config, Success(settings))

listServices_cb(config) ==
  ThenReturn(config,
    [Success(Undefined) EXCEPT
       !.names = SortKeys(Keys(OrElse(Get(config, "services"), EmptyObj)))])

listSources_cb(config, source) ==
  LET sources     == OrElse(Get(config, "sources"), EmptyObj)
      sourceNames == SelectSeq(Keys(sources), LAMBDA s : ~IsMeta(s))
      named       == IF source # "" THEN Str(source) ELSE Get(sources, "__current__")
      current     == IF ~Truthy(named) \/ ~Truthy(Get(sources, named.str))
                       THEN LocalStoreLOCAL ELSE named.str
  IN  ThenReturn(config,
        [Success(Undefined) EXCEPT
           !.names = Append(sourceNames, LocalStoreLOCAL), !.current = current])

import_cb(config, settings) ==
  LET global == Get(config, "global")
      c1     == IF global.kind = "object"
                  THEN Put(config, "global", extend(global, Get(settings, "global")))
                  ELSE config
      services == Get(c1, "services")
      c2     == IF services.kind = "object"
                  THEN Put(c1, "services", extend(services, Get(settings, "services")))
                  ELSE c1
  IN  IF extendThrows(global, Get(settings, "global")) THEN ThenThrow(config)
      ELSE IF extendThrows(services, Get(settings, "services")) THEN ThenThrow(c1)
      ELSE ThenDump(c2)

\* export that hands out the whole Document
export_cbWhole(config) == ThenReturn(config, Success(config))

export_cb(config) ==
  ThenReturn(config,
    Success(Obj(<< <<"global", Get(config, "global")>>,
                   <<"services", Get(config, "services")>> >>)))

\* the store getStore hands out: this one (named local), or a RemoteStore made of the
\* source's name and its entry in sources.  RemoteStore is not declared in the file:
\* hasRemoteStore tells whether the environment defines it, and naming it throws a
\* ReferenceError where it does not; config.sources[source] throws where config has
\* no sources.
getStore_cb(config, src, hasRemoteStore) ==
  IF ~Truthy(src) \/ src = Str(LocalStoreLOCAL)
    THEN ThenReturn(config, [Success(Undefined) EXCEPT !.store = LocalStoreLOCAL])
  ELSE IF ~hasRemoteStore \/ Get(config, "sources").kind # "object" THEN ThenThrow(config)
  ELSE ThenReturn(config,
         [Success(Get(Get(config, "sources"), src.str)) EXCEPT !.store = src.str])

currentStore_cb(config, source) ==
  ThenGetStore(config,
    IF source # "" THEN Str(source)
    ELSE Get(OrElse(Get(config, "sources"), EmptyObj), "__current__"))

NoArg ==
  [service |-> "", settings |-> Undefined, includeGlobal |-> FALSE, src |-> Undefined,
   hasRemoteStore |-> FALSE]

\* the callback of operation o, called with the loaded config
Callback(o, a, config, source) ==
  CASE o = "load"            -> load_cb(config)
    [] o = "clear"           -> clear_cb(config)
    [] o = "saveGlobals"     -> saveGlobals_cb(config, a.settings)
    [] o = "saveService"     -> saveService_cb(config, a.service, a.settings)
    [] o = "deleteGlobals"   -> deleteGlobals_cb(config)
    [] o = "deleteService"   -> deleteService_cb(config, a.service)
    [] o = "serviceSettings" -> serviceSettings_cb(config, a.service, a.includeGlobal)
    [] o = "listServices"    -> listServices_cb(config)
    [] o = "listSources"     -> listSources_cb(config, source)
    [] o = "import"          -> import_cb(config, a.settings)
    [] o = "export"          -> export_cb(config)
    [] o = "getStore"        -> getStore_cb(config, a.src, a.hasRemoteStore)
    [] o = "currentStore"    -> currentStore_cb(config, source)

\* the plaintext dump encrypts
dumpText(config) == Stringify(sort(config))

(***************************************************************************)
(* The inputs of the model.                                                *)
(***************************************************************************)
O1(k, v) == Obj(<< <<k, v>> >>)

O2(k1, v1, k2, v2) == Obj(<< <<k1, v1>>, <<k2, v2>> >>)

ServiceNames == {"github", "mail"}

SettingsInputs == {O1("a", Str("1")), O1("b", Str("2")), O1("a", Str("2"))}

FullDocument ==
  Obj(<< <<"global", O1("a", Str("1"))>>,
         <<"services", O2("github", O1("a", Str("1")), "mail", O1("b", Str("2")))>>,
         <<"sources", O2("__current__", Str("remote"), "remote", EmptyObj)>> >>)

\* valid JSON with neither global nor services, and a source named as the local one
PartialDocument == O1("sources", O1("local", EmptyObj))

\* a Document whose keys are not in order at any level
UnsortedDocument ==
  Obj(<< <<"sources", EmptyObj>>,
         <<"services", O2("mail", O2("b", Str("2"), "a", Str("1")), "github", EmptyObj)>>,
         <<"global", O2("b", Str("2"), "a", Str("1"))>> >>)

DumpInputs == {EmptyDocument, UnsortedDocument}

ImportInputs ==
  { O2("global", O1("a", Str("2")), "services", O1("github", O1("b", Str("2")))),
    O1("global", O1("b", Str("2"))) }

SourceInputs == {"", "remote"}

GetStoreInputs == {Undefined, Str("local"), Str("remote")}

InitFiles ==
  { <<>>,
    <<encrypt(StoreKey, Stringify(FullDocument))>>,
    <<encrypt(StoreKey, Stringify(PartialDocument))>>,
    <<encrypt("another key", Stringify(FullDocument))>>,
    <<encrypt(StoreKey, <<LBrace>>)>> }

\* what a failed write may leave in the file: nothing that decrypts
Truncated == [key |-> "", text |-> <<>>]

\* what is written when encrypt has failed: the text of an undefined ciphertext
NotCiphertext == [key |-> "", text |-> <<StrTok("undefined")>>]

(***************************************************************************)
(* The state: the file, the store instance, and the operations in flight. *)
(***************************************************************************)
VARIABLES
  file,         \* <<>> when there is no file at _path, else <<ciphertext>>
  cacheOn,      \* _cache
  configCache,  \* _configCache, Undefined until a load has parsed the file
  source,       \* _source, "" until setSource
  pc,           \* where each operation in flight is
  op,           \* its name
  arg,          \* its arguments
  content,      \* the ciphertext it has read, or is writing
  json,         \* the plaintext it is encrypting
  result,       \* what its callback was called with
  loaded,       \* the config its load came back with, as it was then
  overlapped,   \* whether another operation was in flight during it
  nops,         \* the number of operations started
  nested,       \* <<src>> once currentStore has called getStore(src), else <<>>
  ghost         \* hit: its first load was served from the cache;
                \* faulted: one of its file or cipher primitives has failed

vars ==
  <<file, cacheOn, configCache, source, pc, op, arg, content, json, result,
    loaded, overlapped, nops, nested, ghost>>

NoGhost == [hit |-> FALSE, faulted |-> FALSE]

Init ==
  /\ file \in InitFiles
  /\ cacheOn \in BOOLEAN
  /\ configCache = Undefined
  /\ source = ""
  /\ pc = [p \in Procs |-> "idle"]
  /\ op = [p \in Procs |-> ""]
  /\ arg = [p \in Procs |-> NoArg]
  /\ content = [p \in Procs |-> NoContent]
  /\ json = [p \in Procs |-> <<>>]
  /\ result = [p \in Procs |-> NoResult]
  /\ loaded = [p \in Procs |-> Undefined]
  /\ overlapped = [p \in Procs |-> FALSE]
  /\ nops = 0
  /\ nested = [p \in Procs |-> <<>>]
  /\ ghost = [p \in Procs |-> NoGhost]

\* the caller starts operation o
Begin(p, o, a) ==
  /\ pc[p] = "idle"
  /\ \A q \in Procs : q < p => pc[q] # "idle"
  /\ nops < MaxOps
  /\ nops' = nops + 1
  /\ op' = [op EXCEPT ![p] = o]
  /\ arg' = [arg EXCEPT ![p] = a]
  /\ overlapped' = [q \in Procs |->
       IF q = p THEN \E r \in Procs \ {p} : pc[r] \notin {"idle", "done"}
       ELSE overlapped[q] \/ pc[q] # "idle"]
  /\ ghost' = [ghost EXCEPT ![p] =
       [hit |-> o # "dump" /\ cacheOn /\ Truthy(configCache), faulted |-> FALSE]]
  /\ UNCHANGED <<file, cacheOn, source>>

\* the callback of load is called with config; aliased: config is the object in _configCache
\* what the callback given to load does with config: getStore's callback where
\* currentStore has called getStore, else the operation's own
Outcome(p, o, a, config) ==
  IF nested[p] # <<>> THEN getStore_cb(config, nested[p][1], a.hasRemoteStore)
  ELSE Callback(o, a, config, source)

\* where currentStore's callback calls getStore, the load of getStore is served at
\* once from a cache that is set, and else reads the file again
Served(h1, cache1, a) ==
  IF h1.next = "getStore" /\ cacheOn /\ Truthy(cache1)
    THEN getStore_cb(cache1, h1.src, a.hasRemoteStore)
    ELSE h1

\* the state after the callbacks have run: h1 is the outcome of the operation's
\* callback, h that of the last callback run
Settle(p, config, cache1, h1, h) ==
  /\ configCache' = cache1
  /\ pc' = [pc EXCEPT ![p] =
       IF h.next = "dump" THEN "encrypt"
       ELSE IF h.next = "getStore" THEN "read" ELSE "done"]
  /\ json' = [json EXCEPT ![p] = IF h.next = "dump" THEN dumpText(h.config) ELSE <<>>]
  /\ result' = [result EXCEPT ![p] = h.result]
  /\ loaded' = [loaded EXCEPT ![p] = config]
  /\ nested' = [nested EXCEPT ![p] =
       IF h1.next = "getStore" THEN <<h1.src>> ELSE nested[p]]

DeliverOutcome(p, a, config, cache1, h1) ==
  Settle(p, config, cache1, h1, Served(h1, cache1, a))

DeliverCached(p, a, config, aliased, h1) ==
  DeliverOutcome(p, a, config, IF aliased THEN h1.config ELSE configCache, h1)

Deliver(p, o, a, config, aliased) ==
  DeliverCached(p, a, config, aliased, Outcome(p, o, a, config))

load(p, o, a) ==
  IF cacheOn /\ Truthy(configCache)
    THEN Deliver(p, o, a, configCache, TRUE) /\ UNCHANGED content
    ELSE /\ pc' = [pc EXCEPT ![p] = "read"]
         /\ UNCHANGED <<configCache, content, json, result, loaded, nested>>

Load(p) == Begin(p, "load", NoArg) /\ load(p, "load", NoArg)

dump(p) ==
  \E d \in DumpInputs :
    /\ Begin(p, "dump", [NoArg EXCEPT !.settings = d])
    /\ json' = [json EXCEPT ![p] = dumpText(d)]
    /\ pc' = [pc EXCEPT ![p] = "encrypt"]
    /\ UNCHANGED <<configCache, content, result, loaded, nested>>

clear(p) == Begin(p, "clear", NoArg) /\ load(p, "clear", NoArg)

saveGlobals(p) ==
  \E s \in SettingsInputs :
    LET a == [NoArg EXCEPT !.settings = s]
    IN  Begin(p, "saveGlobals", a) /\ load(p, "saveGlobals", a)

saveService(p) ==
  \E n \in ServiceNames, s \in SettingsInputs :
    LET a == [NoArg EXCEPT !.service = n, !.settings = s]
    IN  Begin(p, "saveService", a) /\ load(p, "saveService", a)

deleteGlobals(p) == Begin(p, "deleteGlobals", NoArg) /\ load(p, "deleteGlobals", NoArg)

deleteService(p) ==
  \E n \in ServiceNames :
    LET a == [NoArg EXCEPT !.service = n]
    IN  Begin(p, "deleteService", a) /\ load(p, "deleteService", a)

serviceSettings(p) ==
  \E n \in ServiceNames, g \in BOOLEAN :
    LET a == [NoArg EXCEPT !.service = n, !.includeGlobal = g]
    IN  Begin(p, "serviceSettings", a) /\ load(p, "serviceSettings", a)

listServices(p) == Begin(p, "listServices", NoArg) /\ load(p, "listServices", NoArg)

listSources(p) == Begin(p, "listSources", NoArg) /\ load(p, "listSources", NoArg)

import(p) ==
  \E s \in ImportInputs :
    LET a == [NoArg EXCEPT !.settings = s]
    IN  Begin(p, "import", a) /\ load(p, "import", a)

export(p) == Begin(p, "export", NoArg) /\ load(p, "export", NoArg)

getStore(p) ==
  \E s \in GetStoreInputs, r \in BOOLEAN :
    LET a == [NoArg EXCEPT !.src = s, !.hasRemoteStore = r]
    IN  Begin(p, "getStore", a) /\ load(p, "getStore", a)

currentStore(p) ==
  \E r \in BOOLEAN :
    LET a == [NoArg EXCEPT !.hasRemoteStore = r]
    IN  Begin(p, "currentStore", a) /\ load(p, "currentStore", a)

setSource ==
  \E s \in SourceInputs :
    /\ s # source
    /\ source' = s
    /\ UNCHANGED <<file, cacheOn, configCache, pc, op, arg, content, json, result,
                   loaded, overlapped, nops, nested, ghost>>

\* fs.readFile calls back
ReadFileDone(p) ==
  /\ pc[p] = "read"
  /\ IF file = <<>>
       THEN Deliver(p, op[p], arg[p], EmptyDocument, FALSE) /\ UNCHANGED content
       ELSE /\ content' = [content EXCEPT ![p] = file[1]]
            /\ pc' = [pc EXCEPT ![p] = "decrypt"]
            /\ UNCHANGED <<configCache, json, result, loaded, nested>>
  /\ UNCHANGED <<file, cacheOn, source, op, arg, overlapped, nops, ghost>>

\* decrypt's callback taking a file that is unreadable for one that is absent
DecryptDoneRepairs(p) ==
  /\ pc[p] = "decrypt"
  /\ LET d == decrypt(StoreKey, content[p])
         j == JSONparse(d.text)
     IN  IF ~d.ok \/ ~j.ok
           THEN Deliver(p, op[p], arg[p], EmptyDocument, FALSE)
           ELSE Deliver(p, op[p], arg[p], j.value, TRUE)
  /\ content' = [content EXCEPT ![p] = NoContent]
  /\ UNCHANGED <<file, cacheOn, source, op, arg, overlapped, nops, ghost>>

\* _cipher.decrypt calls back
DecryptDone(p) ==
  /\ pc[p] = "decrypt"
  /\ LET d == decrypt(StoreKey, content[p])
         j == JSONparse(d.text)
     IN  IF ~d.ok \/ ~j.ok
           THEN /\ pc' = [pc EXCEPT ![p] = "done"]
                /\ result' = [result EXCEPT ![p] =
                     Failure(loadError(IF ~d.ok THEN "decrypt" ELSE "parse"))]
                /\ UNCHANGED <<configCache, json, loaded, nested>>
           ELSE Deliver(p, op[p], arg[p], j.value, TRUE)
  /\ content' = [content EXCEPT ![p] = NoContent]
  /\ UNCHANGED <<file, cacheOn, source, op, arg, overlapped, nops, ghost>>

\* _cipher.encrypt calls back, and the write is issued
EncryptDone(p) ==
  /\ pc[p] = "encrypt"
  /\ content' = [content EXCEPT ![p] = encrypt(StoreKey, json[p])]
  /\ json' = [json EXCEPT ![p] = <<>>]
  /\ pc' = [pc EXCEPT ![p] = "write"]
  /\ UNCHANGED <<file, cacheOn, configCache, source, op, arg, result, loaded,
                 overlapped, nops, nested, ghost>>

\* fs.writeFile calls back: the write is done, or it failed and left the file as it
\* was or cut short
WriteFileDone(p) ==
  /\ pc[p] = "write"
  /\ \E outcome \in {"written", "failed", "truncated"} :
       /\ file' = CASE outcome = "written"   -> <<content[p]>>
                    [] outcome = "failed"    -> file
                    [] outcome = "truncated" -> <<Truncated>>
       /\ result' = [result EXCEPT ![p] =
            IF outcome = "written" THEN Success(Undefined) ELSE Failure(WriteError)]
       /\ ghost' = [ghost EXCEPT ![p].faulted = @ \/ outcome # "written"]
  /\ pc' = [pc EXCEPT ![p] = "done"]
  /\ content' = [content EXCEPT ![p] = NoContent]
  /\ UNCHANGED <<cacheOn, configCache, source, op, arg, json, loaded, overlapped, nops,
                 nested>>

\* what load comes back with on a new store without a cache, over file f
FreshLoad(f) ==
  IF f = <<>> THEN [ok |-> TRUE, config |-> EmptyDocument]
  ELSE LET d == decrypt(StoreKey, f[1])
           j == JSONparse(d.text)
       IN  IF d.ok /\ j.ok THEN [ok |-> TRUE, config |-> j.value]
           ELSE [ok |-> FALSE, config |-> Undefined]

\* what load comes back with on this store, as it is now
LoadNow ==
  IF cacheOn /\ Truthy(configCache) THEN [ok |-> TRUE, config |-> configCache]
  ELSE FreshLoad(file)

\* the caller has its answer
Return(p) ==
  /\ pc[p] = "done"
  /\ pc' = [pc EXCEPT ![p] = "idle"]
  /\ op' = [op EXCEPT ![p] = ""]
  /\ arg' = [arg EXCEPT ![p] = NoArg]
  /\ result' = [result EXCEPT ![p] = NoResult]
  /\ loaded' = [loaded EXCEPT ![p] = Undefined]
  /\ overlapped' = [overlapped EXCEPT ![p] = FALSE]
  /\ nested' = [nested EXCEPT ![p] = <<>>]
  /\ ghost' = [ghost EXCEPT ![p] = NoGhost]
  /\ UNCHANGED <<file, cacheOn, configCache, source, content, json, nops>>

Next ==
  \/ \E p \in Procs : Load(p)
  \/ \E p \in Procs : dump(p)
  \/ \E p \in Procs : clear(p)
  \/ \E p \in Procs : saveGlobals(p)
  \/ \E p \in Procs : saveService(p)
  \/ \E p \in Procs : deleteGlobals(p)
  \/ \E p \in Procs : deleteService(p)
  \/ \E p \in Procs : serviceSettings(p)
  \/ \E p \in Procs : listServices(p)
  \/ \E p \in Procs : listSources(p)
  \/ \E p \in Procs : import(p)
  \/ \E p \in Procs : export(p)
  \/ setSource
  \/ \E p \in Procs : ReadFileDone(p)
  \/ \E p \in Procs : DecryptDone(p)
  \/ \E p \in Procs : EncryptDone(p)
  \/ \E p \in Procs : WriteFileDone(p)
  \/ \E p \in Procs : Return(p)

Spec == Init /\ [][Next]_vars

(***************************************************************************)
(* The store's sources: the operations that name and hand out stores.     *)
(***************************************************************************)
SourceNext ==
  \/ \E p \in Procs : Load(p)
  \/ \E p \in Procs : listSources(p)
  \/ \E p \in Procs : getStore(p)
  \/ \E p \in Procs : currentStore(p)
  \/ setSource
  \/ \E p \in Procs : ReadFileDone(p)
  \/ \E p \in Procs : DecryptDone(p)
  \/ \E p \in Procs : Return(p)

SourceSpec == Init /\ [][SourceNext]_vars

(***************************************************************************)
(* The store where reading the file and encrypting may fail as well.      *)
(***************************************************************************)
\* the number of operations, from the first, whose primitives may fail
FaultyOps == 1

\* fs.readFile calls back with an error though the file is there: load takes any
\* error for the file's absence
ReadFileError(p) ==
  /\ pc[p] = "read"
  /\ nops <= FaultyOps
  /\ file # <<>>
  /\ Deliver(p, op[p], arg[p], EmptyDocument, FALSE)
  /\ ghost' = [ghost EXCEPT ![p].faulted = TRUE]
  /\ UNCHANGED <<file, cacheOn, source, op, arg, content, overlapped, nops>>

\* _cipher.encrypt calls back with an error: dump does not look at it and calls
\* fs.writeFile with a ciphertext that is undefined, which throws or writes the
\* text of undefined, as the version of fs has it
EncryptError(p) ==
  /\ pc[p] = "encrypt"
  /\ nops <= FaultyOps
  /\ \E thrown \in BOOLEAN :
       IF thrown
         THEN /\ pc' = [pc EXCEPT ![p] = "done"]
              /\ result' = [result EXCEPT ![p] = Thrown]
              /\ UNCHANGED content
         ELSE /\ pc' = [pc EXCEPT ![p] = "write"]
              /\ content' = [content EXCEPT ![p] = NotCiphertext]
              /\ UNCHANGED result
  /\ json' = [json EXCEPT ![p] = <<>>]
  /\ ghost' = [ghost EXCEPT ![p].faulted = TRUE]
  /\ UNCHANGED <<file, cacheOn, configCache, source, op, arg, loaded, overlapped, nops,
                 nested>>

FaultFiles == {<<encrypt(StoreKey, Stringify(FullDocument))>>}

FaultInit ==
  /\ file \in FaultFiles
  /\ cacheOn \in BOOLEAN
  /\ configCache = Undefined
  /\ source = ""
  /\ pc = [p \in Procs |-> "idle"]
  /\ op = [p \in Procs |-> ""]
  /\ arg = [p \in Procs |-> NoArg]
  /\ content = [p \in Procs |-> NoContent]
  /\ json = [p \in Procs |-> <<>>]
  /\ result = [p \in Procs |-> NoResult]
  /\ loaded = [p \in Procs |-> Undefined]
  /\ overlapped = [p \in Procs |-> FALSE]
  /\ nops = 0
  /\ nested = [p \in Procs |-> <<>>]
  /\ ghost = [p \in Procs |-> NoGhost]

FaultNext ==
  \/ Next
  \/ \E p \in Procs : ReadFileError(p)
  \/ \E p \in Procs : EncryptError(p)

FaultSpec == FaultInit /\ [][FaultNext]_vars

(***************************************************************************)
(* Properties.                                                             *)
(***************************************************************************)
RECURSIVE SameValue(_, _)
\* equal values: the same keys and values at every level, whatever the order of the keys
SameValue(x, y) ==
  /\ x.kind = y.kind
  /\ x.str = y.str
  /\ KeySet(x) = KeySet(y)
  /\ \A k \in KeySet(x) : SameValue(Get(x, k), Get(y, k))

\* operation o of p has called back with success
Succeeded(p, o) == pc[p] = "done" /\ op[p] = o /\ result[p].status = "ok"

\* the keys of settings hold the new values in after, the other keys of before are kept
MergedInto(after, settings, before) ==
  /\ \A k \in KeySet(settings) : Get(after, k) = Get(settings, k)
  /\ \A k \in KeySet(before) \ KeySet(settings) : Get(after, k) = Get(before, k)

A1 == O1("a", Str("1"))

B2 == O1("b", Str("2"))

\* C1: when saveGlobals({a:1}) and saveGlobals({b:2}) overlap on one store and both
\* have completed, the persisted global mapping holds a:1 and b:2.
C1_NoLostUpdate ==
  \A p, q \in Procs :
    ( /\ p # q
      /\ Succeeded(p, "saveGlobals") /\ arg[p].settings = A1
      /\ Succeeded(q, "saveGlobals") /\ arg[q].settings = B2
      /\ overlapped[p] /\ overlapped[q] )
    => /\ FreshLoad(file).ok
       /\ Get(Get(FreshLoad(file).config, "global"), "a") = Str("1")
       /\ Get(Get(FreshLoad(file).config, "global"), "b") = Str("2")

\* the mapping a save operation merges into, in Document d
SavedIn(d, p) ==
  IF op[p] = "saveGlobals" THEN Get(d, "global")
  ELSE Get(Get(d, "services"), arg[p].service)

\* C2: after a saveGlobals or saveService that succeeded with no other operation in
\* flight, in the persisted Document and in the one load returns, every key of
\* settings has the new value and every other key saved before has its old value.
C2_SaveMerges ==
  \A p \in Procs :
    ( /\ Succeeded(p, "saveGlobals") \/ Succeeded(p, "saveService")
      /\ ~overlapped[p] )
    => /\ FreshLoad(file).ok
       /\ MergedInto(SavedIn(FreshLoad(file).config, p), arg[p].settings,
                     SavedIn(loaded[p], p))
       /\ MergedInto(SavedIn(LoadNow.config, p), arg[p].settings, SavedIn(loaded[p], p))

\* a saveGlobals has replaced the value already saved under its key
C2_Witness ==
  \E p \in Procs :
    /\ Succeeded(p, "saveGlobals") /\ ~overlapped[p]
    /\ arg[p].settings = O1("a", Str("2"))
    /\ Get(Get(loaded[p], "global"), "a") = Str("1")

\* C3: after an import that succeeded with no other operation in flight, the
\* persisted global is settings.global merged as by saveGlobals, and every imported
\* service is merged as by saveService.
C3_ImportMerges ==
  \A p \in Procs :
    (Succeeded(p, "import") /\ ~overlapped[p])
    => /\ FreshLoad(file).ok
       /\ MergedInto(Get(FreshLoad(file).config, "global"),
                     Get(arg[p].settings, "global"), Get(loaded[p], "global"))
       /\ \A n \in KeySet(Get(arg[p].settings, "services")) :
            MergedInto(Get(Get(FreshLoad(file).config, "services"), n),
                       Get(Get(arg[p].settings, "services"), n),
                       Get(Get(loaded[p], "services"), n))

\* C4: the Document of a successful load has global and services as mappings.
C4_LoadHasMappings ==
  \A p \in Procs :
    Succeeded(p, "load")
    => /\ Get(result[p].value, "global").kind = "object"
       /\ Get(result[p].value, "services").kind = "object"

\* C5: a load that finds no file calls back with no error and the Document
\* {global:{}, services:{}, sources:{}}, and there is still no file.
C5_LoadAbsent ==
  [][\A p \in Procs :
       (op[p] = "load" /\ pc[p] = "read" /\ pc'[p] # "read" /\ file = <<>>)
       => /\ pc'[p] = "done"
          /\ result'[p] =
               Success(Obj(<< <<"global", Obj(<<>>)>>, <<"services", Obj(<<>>)>>,
                              <<"sources", Obj(<<>>)>> >>))
          /\ file' = <<>>]_vars

C5_Witness ==
  \E p \in Procs : Succeeded(p, "load") /\ file = <<>> /\ loaded[p].kind = "object"

\* ciphertext c decrypts under the store's key to text that parses
Readable(c) == decrypt(StoreKey, c).ok /\ JSONparse(decrypt(StoreKey, c).text).ok

\* C6: when the file's content does not decrypt, or decrypts to text that does not
\* parse, the operation fails with the one unreadable-file error and no value, and
\* _configCache is left as it was; with no other operation in flight, the next load
\* reads the file again.
C6_Unreadable ==
  /\ [][\A p \in Procs :
          (pc[p] = "decrypt" /\ pc'[p] # "decrypt" /\ ~Readable(content[p]))
          => /\ pc'[p] = "done"
             /\ result'[p] = Failure(Unreadable)
             /\ configCache' = configCache]_vars
  /\ [](\A p \in Procs :
          (pc[p] = "done" /\ result[p] = Failure(Unreadable) /\ ~overlapped[p])
          => ~(cacheOn /\ Truthy(configCache)))

\* a load has failed on a file that decrypts to text that does not parse
C6_Witness ==
  \E p \in Procs :
    /\ pc[p] = "done" /\ op[p] = "load" /\ result[p] = Failure(Unreadable)
    /\ file # <<>> /\ decrypt(StoreKey, file[1]).ok /\ ~Readable(file[1])
    /\ ~Truthy(configCache)

\* C7: after a dump(d) that succeeded with no other operation in flight, a new
\* store without a cache over the same file and key loads a Document equal to d.
C7_RoundTrip ==
  \A p \in Procs :
    (Succeeded(p, "dump") /\ ~overlapped[p])
    => /\ FreshLoad(file).ok
       /\ SameValue(FreshLoad(file).config, arg[p].settings)

\* a Document whose keys were out of order has been dumped
C7_Witness ==
  \E p \in Procs :
    /\ Succeeded(p, "dump") /\ ~overlapped[p]
    /\ arg[p].settings = UnsortedDocument

\* C8: when the callback of deleteService is called with a config that has no
\* services[service], the operation fails with the not-configured error for that
\* service in that same step, with no write issued, the file as it was, and
\* _configCache as it was or as load has just set it.
C8_DeleteMissing ==
  [][\A p \in Procs :
       ( /\ op'[p] = "deleteService"
         /\ loaded[p] = Undefined /\ loaded'[p] # Undefined
         /\ ~Truthy(Get(Get(loaded'[p], "services"), arg'[p].service)) )
       => /\ pc'[p] = "done"
          /\ result'[p] = Failure(NotConfigured(arg'[p].service))
          /\ file' = file
          /\ configCache' \in {configCache, loaded'[p]}]_vars

C8_Witness ==
  \E p \in Procs :
    /\ pc[p] = "done" /\ op[p] = "deleteService"
    /\ result[p] = Failure(NotConfigured(arg[p].service))
    /\ Truthy(Get(loaded[p], "services"))

\* C9: after a deleteService(s) of a configured service that succeeded with no
\* other operation in flight, the Document this store loads and the one a new store
\* loads from the file are the Document as it was less services[s], and
\* serviceSettings(s, false) on either calls back with null.
C9_DeleteConfigured ==
  \A p \in Procs :
    (Succeeded(p, "deleteService") /\ ~overlapped[p])
    => /\ LoadNow.ok
       /\ FreshLoad(file).ok
       /\ \A d \in {LoadNow.config, FreshLoad(file).config} :
            /\ serviceSettings_cb(d, arg[p].service, FALSE).result = Success(Null)
            /\ SameValue(d, Put(loaded[p], "services",
                                Delete(Get(loaded[p], "services"), arg[p].service)))

\* one of two configured services has been deleted
C9_Witness ==
  \E p \in Procs :
    /\ Succeeded(p, "deleteService") /\ ~overlapped[p]
    /\ Cardinality(KeySet(Get(loaded[p], "services"))) = 2
    /\ Truthy(Get(Get(loaded[p], "services"), arg[p].service))

\* C10: the names listSources calls back with hold no metadata key and hold the
\* local name exactly once.
C10_ListSources ==
  \A p \in Procs :
    Succeeded(p, "listSources")
    => /\ \A i \in 1..Len(result[p].names) : ~IsMeta(result[p].names[i])
       /\ Cardinality({i \in 1..Len(result[p].names) :
                         result[p].names[i] = "local"}) = 1

\* C11: after a clear that succeeded with no other operation in flight, in the
\* Document this store loads and in the one a new store loads from the file, global
\* and services are empty and sources is as load had returned it, __current__
\* included.
C11_ClearKeepsSources ==
  \A p \in Procs :
    (Succeeded(p, "clear") /\ ~overlapped[p])
    => /\ LoadNow.ok
       /\ FreshLoad(file).ok
       /\ \A d \in {LoadNow.config, FreshLoad(file).config} :
            /\ Get(d, "global") = EmptyObj
            /\ Get(d, "services") = EmptyObj
            /\ SameValue(Get(d, "sources"), Get(loaded[p], "sources"))

\* a Document with settings and a current source has been cleared
C11_Witness ==
  \E p \in Procs :
    /\ Succeeded(p, "clear") /\ ~overlapped[p]
    /\ Truthy(Get(Get(loaded[p], "sources"), "__current__"))
    /\ Get(loaded[p], "global") # EmptyObj

\* C12: serviceSettings(service, includeGlobal) calls back with null when includeGlobal
\* is false and the service has no settings; in every other case with a mapping whose
\* keys are those of services[service] and of global, a key of the service with the
\* service's value and any other key with global's; the file and the Document load
\* returned are left as they were.
C12_ServiceSettings ==
  [][\A p \in Procs :
       (op'[p] = "serviceSettings" /\ loaded[p] = Undefined /\ loaded'[p] # Undefined)
       => LET mine   == Get(Get(loaded'[p], "services"), arg'[p].service)
              global == Get(loaded'[p], "global")
              v      == result'[p].value
          IN  /\ pc'[p] = "done"
              /\ result'[p].status = "ok"
              /\ IF ~arg'[p].includeGlobal /\ ~Truthy(mine) THEN v = Null
                 ELSE /\ v.kind = "object"
                      /\ KeySet(v) = KeySet(mine) \cup KeySet(global)
                      /\ \A k \in KeySet(mine) : Get(v, k) = Get(mine, k)
                      /\ \A k \in KeySet(global) \ KeySet(mine) :
                           Get(v, k) = Get(global, k)
              /\ file' = file
              /\ configCache' \in {configCache, loaded'[p]}]_vars

\* settings have been asked of a service that has a key of global with another value
C12_Witness ==
  \E p \in Procs :
    /\ Succeeded(p, "serviceSettings")
    /\ LET mine   == Get(Get(loaded[p], "services"), arg[p].service)
           global == Get(loaded[p], "global")
       IN  \E k \in KeySet(mine) \cap KeySet(global) : Get(mine, k) # Get(global, k)

\* C16: export calls back with exactly the two entries global and services, equal
\* to those of the Document load returned; sources is not among them, and nothing
\* is written to the file.
C16_Export ==
  [][\A p \in Procs :
       (op'[p] = "export" /\ loaded[p] = Undefined /\ loaded'[p] # Undefined)
       => /\ pc'[p] = "done"
          /\ result'[p].status = "ok"
          /\ Keys(result'[p].value) = <<"global", "services">>
          /\ Get(result'[p].value, "global") = Get(loaded'[p], "global")
          /\ Get(result'[p].value, "services") = Get(loaded'[p], "services")
          /\ file' = file]_vars

\* a Document that has sources has been exported
C16_Witness ==
  \E p \in Procs :
    /\ Succeeded(p, "export")
    /\ KeySet(Get(loaded[p], "sources")) # {}
    /\ KeySet(Get(loaded[p], "global")) # {}

\* C13: an operation one of whose primitives has failed otherwise than by the file's
\* absence (a read of a file that is there, an encryption, a write) calls back with
\* a failure.
C13_FailuresReported ==
  \A p \in Procs :
    (pc[p] = "done" /\ ghost[p].faulted) => result[p].status = "error"

\* C14: an operation that has come to its end has called back, once, with a failure
\* or with a success.
C14_CalledBackOnce ==
  \A p \in Procs : pc[p] = "done" => result[p].status \in {"ok", "error"}

\* C17: the store currentStore calls back with is the one of the name listSources
\* reports as current, for the same Document and the same setSource override.
C17_CurrentStore ==
  \A p \in Procs :
    ( /\ Succeeded(p, "currentStore")
      /\ ~overlapped[p]
      /\ nested[p] = <<currentStore_cb(loaded[p], source).src>> )
    => result[p].store = listSources_cb(loaded[p], source).result.current

\* C18: on a store that caches, when no operation is in flight and every operation
\* that was started has succeeded, what load returns is the Document in the file.
C18_CacheConsistent ==
  ( /\ cacheOn
    /\ \A p \in Procs : pc[p] \in {"idle", "done"}
    /\ Cardinality({p \in Procs : pc[p] = "done" /\ result[p].status = "ok"}) = nops
    /\ FreshLoad(file).ok )
  => /\ LoadNow.ok
     /\ SameValue(LoadNow.config, FreshLoad(file).config)

Transactions ==
  {"saveGlobals", "saveService", "deleteGlobals", "deleteService", "clear", "import"}

\* C19 as stated: while the file is there and unreadable, a step of a transaction
\* with no other operation in flight leaves the file as it is and prepares no write,
\* and where it ends the transaction it ends it with the unreadable-file error.
C19_NoAutoRepair ==
  [][\A p \in Procs :
       ( /\ file # <<>> /\ ~Readable(file[1])
         /\ pc[p] # "done" /\ pc'[p] # pc[p]
         /\ op'[p] \in Transactions /\ ~overlapped'[p] )
       => /\ pc'[p] \in {"read", "decrypt", "done"}
          /\ file' = file
          /\ pc'[p] = "done" => result'[p] = Failure(Unreadable)]_vars

\* C19, amended: the same of a transaction whose load is not served from the cache
\* and reads the file.
C19_NoAutoRepairOnRead ==
  [][\A p \in Procs :
       ( /\ file # <<>> /\ ~Readable(file[1])
         /\ pc[p] # "done" /\ pc'[p] # pc[p]
         /\ op'[p] \in Transactions /\ ~overlapped'[p]
         /\ ~ghost'[p].hit /\ ~ghost'[p].faulted )
       => /\ pc'[p] \in {"read", "decrypt", "done"}
          /\ file' = file
          /\ pc'[p] = "done" => result'[p] = Failure(Unreadable)]_vars

\* a transaction has read a file that is unreadable, and failed
C19_Witness ==
  \E p \in Procs :
    /\ pc[p] = "done" /\ op[p] \in Transactions /\ ~overlapped[p] /\ ~ghost[p].hit
    /\ result[p] = Failure(Unreadable)
    /\ file # <<>> /\ ~Readable(file[1])

\* C20: after a transaction that was served from the cache and failed at its write,
\* with no other operation in flight, load returns the Document as it was before.
C20_FailedWriteUnseen ==
  \A p \in Procs :
    ( /\ pc[p] = "done" /\ op[p] \in Transactions
      /\ result[p] = Failure(WriteError)
      /\ cacheOn /\ ghost[p].hit /\ ~overlapped[p] )
    => /\ LoadNow.ok
       /\ SameValue(LoadNow.config, loaded[p])

(***************************************************************************)
(* sort on its own: an input is drawn, sorted, and the outcome sorted     *)
(* again.  Store 1's registers hold the input (arg[1].settings), the      *)
(* outcome (loaded[1]) and the outcome of the second call (result[1]).    *)
(***************************************************************************)
Leaves == {Str("1"), Str("2")}

\* the mappings of at most two of the keys a and b, in either order
FlatObjects ==
  {EmptyObj}
    \cup {O1(k, v) : k \in {"a", "b"}, v \in Leaves}
    \cup {O2(k[1], v, k[2], w) : k \in {<<"a", "b">>, <<"b", "a">>}, v \in Leaves, w \in Leaves}

\* sequences whose elements are out of order, with a mapping among them
Arrays ==
  {Arr(<<x, y>>) : x \in {Str("2"), O2("b", Str("1"), "a", Str("2"))},
                   y \in {Str("1"), O2("a", Str("2"), "b", Str("1"))}}

Nested == {o \in FlatObjects : Len(o.members) # 1} \cup Arrays

SortInputs ==
  FlatObjects \cup Arrays \cup {Str("1"), Null}
    \cup {O2(k[1], x, k[2], y) :
            k \in {<<"global", "services">>, <<"services", "global">>},
            x \in Nested, y \in Nested}

SortInit ==
  /\ \E d \in SortInputs :
       arg = [p \in Procs |-> IF p = 1 THEN [NoArg EXCEPT !.settings = d] ELSE NoArg]
  /\ file = <<>>
  /\ cacheOn = FALSE
  /\ configCache = Undefined
  /\ source = ""
  /\ pc = [p \in Procs |-> "idle"]
  /\ op = [p \in Procs |-> ""]
  /\ content = [p \in Procs |-> NoContent]
  /\ json = [p \in Procs |-> <<>>]
  /\ result = [p \in Procs |-> NoResult]
  /\ loaded = [p \in Procs |-> Undefined]
  /\ overlapped = [p \in Procs |-> FALSE]
  /\ nops = 0
  /\ nested = [p \in Procs |-> <<>>]
  /\ ghost = [p \in Procs |-> NoGhost]

SortOnce ==
  /\ pc[1] = "idle"
  /\ pc' = [pc EXCEPT ![1] = "sorted"]
  /\ loaded' = [loaded EXCEPT ![1] = sort(arg[1].settings)]
  /\ UNCHANGED <<file, cacheOn, configCache, source, op, arg, content, json, result,
                 overlapped, nops, nested, ghost>>

SortAgain ==
  /\ pc[1] = "sorted"
  /\ pc' = [pc EXCEPT ![1] = "done"]
  /\ result' = [result EXCEPT ![1] = Success(sort(loaded[1]))]
  /\ UNCHANGED <<file, cacheOn, configCache, source, op, arg, content, json, loaded,
                 overlapped, nops, nested, ghost>>

SortNext == SortOnce \/ SortAgain

SortSpec == SortInit /\ [][SortNext]_vars

\* C15: sorting the outcome of sort gives the same outcome; two inputs that differ
\* only in the order their keys were inserted, at any depth, have one outcome; and
\* the outcome has the content of the input, the elements of a sequence at their
\* places.
C15_SortCanonical ==
  /\ pc[1] = "done" => result[1].value = loaded[1]
  /\ pc[1] # "idle" =>
       /\ \A e \in SortInputs : SameValue(e, arg[1].settings) => sort(e) = loaded[1]
       /\ SameValue(loaded[1], arg[1].settings)

\* a Document has been sorted whose keys were out of order at both depths and which
\* holds a sequence
C15_Witness ==
  /\ pc[1] = "done"
  /\ Keys(arg[1].settings) = <<"services", "global">>
  /\ Keys(Get(arg[1].settings, "services")) = <<"b", "a">>
  /\ Get(arg[1].settings, "global").kind = "array"
  /\ Keys(loaded[1]) = <<"global", "services">>
  /\ Keys(Get(loaded[1], "services")) = <<"a", "b">>

====
